---- MODULE Spec2Model ----
(***************************************************************************)
(* Sudoku generator (generate_sudoku.py) and solver (solve_sudoku.py).     *)
(* The grid is a 9x9 matrix indexed from 0 as in the source; the two       *)
(* three backtracking searches are modelled step by step, each call, loop  *)
(* iteration and return being one action over an explicit call stack.      *)
(***************************************************************************)
EXTENDS Integers, Sequences, FiniteSets, TLC

\* ------------------------------------------------------------------------
\* Program constants
\* ------------------------------------------------------------------------
N == 9

B == 3

ExtremeDefaultMinNodes == 75000

ExtremeDefaultMaxAttempts == 100

\* ------------------------------------------------------------------------
\* Bounds of the exploration
\* ------------------------------------------------------------------------
\* seeds 0..MaxSeed are given to random.seed
MaxSeed == 1

\* the removal loop is cut after MaxRemoved removals (the difficulty table
\* asks for 41 to 60 removals)
MaxRemoved == 41

\* max_attempts is 0 (no attempt is allowed) or MaxAttempts
MaxAttempts == 2

\* the solver's input grids have the first 0..MaxHoles cells of HoleCells empty
MaxHoles == 7

\* count_solutions is called with limit in 1..MaxLimit
MaxLimit == 3

VARIABLES pc, prog, difficulty, rng, grid, stack, ret, nodes, ctx,
          full, puzzle, cells, ci, removed, backup,
          attempt, min_nodes, max_attempts, log, result,
          input, validate, output, verdict, attempts, limit, count

vars == <<pc, prog, difficulty, rng, grid, stack, ret, nodes, ctx,
          full, puzzle, cells, ci, removed, backup,
          attempt, min_nodes, max_attempts, log, result,
          input, validate, output, verdict, attempts, limit, count>>

paramVars == <<prog, difficulty, min_nodes, max_attempts, limit>>

Max(a, b) == IF a >= b THEN a ELSE b

reducerVars == <<full, puzzle, cells, ci, removed, backup>>

extremeVars == <<attempt, log, result>>

solverVars == <<input, validate, output, verdict, attempts>>

Idx == 0 .. (N - 1)

EmptyGrid == [r \in Idx |-> [c \in Idx |-> 0]]

NoCell == <<N, N>>

\* ------------------------------------------------------------------------
\* Input grids of the solver and of count_solutions: a solved grid with the
\* first k cells of HoleCells emptied and two cells overwritten.
\* ------------------------------------------------------------------------
BaseRows ==
    << <<5, 3, 4, 6, 7, 8, 9, 1, 2>>,
       <<6, 7, 2, 1, 9, 5, 3, 4, 8>>,
       <<1, 9, 8, 3, 4, 2, 5, 6, 7>>,
       <<8, 5, 9, 7, 6, 1, 4, 2, 3>>,
       <<4, 2, 6, 8, 5, 3, 7, 9, 1>>,
       <<7, 1, 3, 9, 2, 4, 8, 5, 6>>,
       <<9, 6, 1, 5, 3, 7, 2, 8, 4>>,
       <<2, 8, 7, 4, 1, 9, 6, 3, 5>>,
       <<3, 4, 5, 2, 8, 6, 1, 7, 9>> >>

BaseGrid == [r \in Idx |-> [c \in Idx |-> BaseRows[r + 1][c + 1]]]

HoleCells == << <<2, 4>>, <<2, 5>>, <<5, 4>>, <<5, 5>>, <<5, 3>>, <<7, 3>>, <<7, 5>>,
                <<0, 0>>, <<8, 1>>, <<4, 7>> >>

EditCell1 == <<2, 3>>

EditCell2 == <<8, 8>>

EditValues1 == (0 - 1) .. (N + 1)

EditValues2 == {BaseGrid[8][8], N + 1}

InputGrid(k, v1, v2) ==
    [r \in Idx |-> [c \in Idx |->
        IF <<r, c>> = EditCell1 THEN v1
        ELSE IF <<r, c>> = EditCell2 THEN v2
        ELSE IF \E i \in 1 .. k : HoleCells[i] = <<r, c>> THEN 0
        ELSE BaseGrid[r][c]]]

Inputs == {InputGrid(k, v1, v2) : k \in 0 .. MaxHoles, v1 \in EditValues1, v2 \in EditValues2}

\* count_solutions is given the conflict-free grids among them
CountInputs == {InputGrid(k, v1, BaseGrid[8][8]) : k \in 0 .. MaxHoles, v1 \in {0, BaseGrid[2][3]}}

\* thresholds given to generate_extreme_puzzle: met at once, met by some
\* attempts only, and the default, which no attempt of this size meets
MinNodesChoices == {1, 100, ExtremeDefaultMinNodes}

\* ------------------------------------------------------------------------
\* The random module, seeded once by main: a multiplicative congruential
\* generator stands in for the library's generator; sample and shuffle
\* follow the library's selection loops.
\* ------------------------------------------------------------------------
RngModulus == 65521

RngMultiplier == 17364

Seeded(seed) == seed + 1

Advance(r) == (RngMultiplier * r) % RngModulus

\* the selection loop of random.sample on the pool 1..9: i digits chosen
SampleFrom[pool \in Seq(1 .. N), res \in Seq(1 .. N), i \in 0 .. N, r \in Nat] ==
    IF i = N THEN [order |-> res, rng |-> r]
    ELSE LET r1 == Advance(r)
             j  == (r1 % (N - i)) + 1
         IN SampleFrom[[pool EXCEPT ![j] = pool[N - i]], Append(res, pool[j]), i + 1, r1]

\* random.sample(range(1, 10), 9)
RandomSample(r) == SampleFrom[[k \in 1 .. N |-> k], <<>>, 0, r]

AllCells == [k \in 1 .. (N * N) |-> <<(k - 1) \div N, (k - 1) % N>>]

\* the swap loop of random.shuffle from position i down to position stop + 1
ShuffleRun[x \in Seq(Idx \X Idx), i \in 0 .. (N * N), stop \in 0 .. (N * N), r \in Nat] ==
    IF i <= stop THEN [cells |-> x, rng |-> r]
    ELSE LET r1 == Advance(r)
             j  == (r1 % i) + 1
         IN ShuffleRun[[x EXCEPT ![i] = x[j], ![j] = x[i]], i - 1, stop, r1]

\* the whole loop, position i down to position 2, N positions at a time
ShuffleFrom[x \in Seq(Idx \X Idx), i \in 0 .. (N * N), r \in Nat] ==
    IF i < 2 THEN [cells |-> x, rng |-> r]
    ELSE LET run == ShuffleRun[x, i, Max(i - N, 1), r]
         IN ShuffleFrom[run.cells, Max(i - N, 1), run.rng]

\* cells = [(r, c) ...]; random.shuffle(cells)
RandomShuffle(r) == ShuffleFrom[AllCells, N * N, r]

\* ------------------------------------------------------------------------
\* generate_sudoku.py: solver primitives
\* ------------------------------------------------------------------------
Least(S) == CHOOSE x \in S : \A y \in S : x <= y

\* the scan of rows r, r+1, ... for the first zero, columns left to right
RECURSIVE gen_find_empty_from(_, _)
gen_find_empty_from(g, r) ==
    IF r = N THEN NoCell
    ELSE LET zeros == {c \in Idx : g[r][c] = 0}
         IN IF zeros = {} THEN gen_find_empty_from(g, r + 1)
            ELSE <<r, Least(zeros)>>

gen_find_empty(g) == gen_find_empty_from(g, 0)

\* gen_is_valid_move without the test of the 3x3 box
gen_is_valid_move_no_box(g, row, col, num) ==
    /\ \A c \in Idx : g[row][c] # num
    /\ \A r \in Idx : g[r][col] # num

gen_is_valid_move(g, row, col, num) ==
    LET br == (row \div B) * B
        bc == (col \div B) * B
    IN /\ \A c \in Idx : g[row][c] # num
       /\ \A r \in Idx : g[r][col] # num
       /\ \A r \in br .. (br + B - 1) : \A c \in bc .. (bc + B - 1) : g[r][c] # num

DIFFICULTY_CLUES == [easy |-> 40, medium |-> 32, hard |-> 25, extreme |-> 21]

\* ------------------------------------------------------------------------
\* solve_sudoku.py: validation and solver primitives
\* ------------------------------------------------------------------------
\* is_valid_group that does not leave the zeros out
is_valid_group_with_zeros(values) ==
    Len(values) = Cardinality({values[i] : i \in 1 .. Len(values)})

is_valid_group(values) ==
    LET nums == SelectSeq(values, LAMBDA v : v # 0)
    IN Len(nums) = Cardinality({nums[i] : i \in 1 .. Len(nums)})

RowValues(g, r) == [k \in 1 .. N |-> g[r][k - 1]]

ColValues(g, c) == [k \in 1 .. N |-> g[k - 1][c]]

BoxValues(g, br, bc) == [k \in 1 .. (B * B) |-> g[br + ((k - 1) \div B)][bc + ((k - 1) % B)]]

\* "valid" when nothing is raised, otherwise the ValueError that is raised
validate_grid(g) ==
    LET badCells == {k \in 0 .. (N * N - 1) : ~(0 <= g[k \div N][k % N] /\ g[k \div N][k % N] <= 9)}
        badRows  == {r \in Idx : ~is_valid_group(RowValues(g, r))}
        badCols  == {c \in Idx : ~is_valid_group(ColValues(g, c))}
        badBoxes == {k \in 0 .. (N - 1) :
                        ~is_valid_group(BoxValues(g, (k \div B) * B, (k % B) * B))}
    IN IF badCells # {}
       THEN LET k == Least(badCells)
            IN <<"Invalid value", g[k \div N][k % N], (k \div N) + 1, (k % N) + 1>>
       ELSE IF badRows # {} THEN <<"Duplicate value in row", Least(badRows) + 1>>
       ELSE IF badCols # {} THEN <<"Duplicate value in column", Least(badCols) + 1>>
       ELSE IF badBoxes # {}
       THEN LET k == Least(badBoxes)
            IN <<"Duplicate value in 3x3 box", ((k \div B) * B) + 1, ((k % B) * B) + 1>>
       ELSE <<"valid">>

RECURSIVE find_empty_from(_, _)
find_empty_from(g, r) ==
    IF r = N THEN NoCell
    ELSE LET zeros == {c \in Idx : g[r][c] = 0}
         IN IF zeros = {} THEN find_empty_from(g, r + 1)
            ELSE <<r, Least(zeros)>>

find_empty(g) == find_empty_from(g, 0)

\* is_valid_move without the test of the row
is_valid_move_no_row(g, row, col, num) ==
    LET box_row == (row \div B) * B
        box_col == (col \div B) * B
    IN /\ \A r \in Idx : g[r][col] # num
       /\ \A r \in box_row .. (box_row + B - 1) :
              \A c \in box_col .. (box_col + B - 1) : g[r][c] # num

\* is_valid_move without the test of the 3x3 box
is_valid_move_no_box(g, row, col, num) ==
    /\ \A c \in Idx : g[row][c] # num
    /\ \A r \in Idx : g[r][col] # num

is_valid_move(g, row, col, num) ==
    LET box_row == (row \div B) * B
        box_col == (col \div B) * B
    IN /\ \A c \in Idx : g[row][c] # num
       /\ \A r \in Idx : g[r][col] # num
       /\ \A r \in box_row .. (box_row + B - 1) :
              \A c \in box_col .. (box_col + B - 1) : g[r][c] # num

Top == stack[Len(stack)]

Pop == SubSeq(stack, 1, Len(stack) - 1)

\* ------------------------------------------------------------------------
\* solve_sudoku_with_stats, one step per call, loop iteration and return
\* ------------------------------------------------------------------------
SwsCall ==
    /\ pc = "sws_call"
    /\ LET empty == gen_find_empty(grid)
       IN IF empty = NoCell
          THEN /\ ret' = TRUE
               /\ pc' = "sws_return"
               /\ UNCHANGED <<stack, rng>>
          ELSE LET s == RandomSample(rng)
               IN /\ stack' = Append(stack, [row |-> empty[1], col |-> empty[2],
                                             order |-> s.order, i |-> 1])
                  /\ rng' = s.rng
                  /\ pc' = "sws_loop"
                  /\ UNCHANGED ret
    /\ UNCHANGED <<grid, nodes, ctx, count>>
    /\ UNCHANGED <<paramVars, reducerVars, extremeVars, solverVars>>

SwsTry ==
    /\ pc = "sws_loop"
    /\ Top.i <= N
    /\ LET f == Top
           num == f.order[f.i]
       IN IF gen_is_valid_move(grid, f.row, f.col, num)
          THEN /\ grid' = [grid EXCEPT ![f.row][f.col] = num]
               /\ nodes' = nodes + 1
               /\ pc' = "sws_call"
               /\ UNCHANGED stack
          ELSE /\ stack' = [stack EXCEPT ![Len(stack)].i = f.i + 1]
               /\ UNCHANGED <<grid, nodes, pc>>
    /\ UNCHANGED <<rng, ret, ctx, count>>
    /\ UNCHANGED <<paramVars, reducerVars, extremeVars, solverVars>>

SwsExhausted ==
    /\ pc = "sws_loop"
    /\ Top.i > N
    /\ stack' = Pop
    /\ ret' = FALSE
    /\ pc' = "sws_return"
    /\ UNCHANGED <<rng, grid, nodes, ctx, count>>
    /\ UNCHANGED <<paramVars, reducerVars, extremeVars, solverVars>>

\* the recursive call of line 56 comes back into the caller's frame
SwsReturn ==
    /\ pc = "sws_return"
    /\ stack # <<>>
    /\ IF ret
       THEN /\ stack' = Pop
            /\ UNCHANGED <<grid, pc>>
       ELSE /\ grid' = [grid EXCEPT ![Top.row][Top.col] = 0]
            /\ stack' = [stack EXCEPT ![Len(stack)].i = Top.i + 1]
            /\ pc' = "sws_loop"
    /\ UNCHANGED <<rng, ret, nodes, ctx, count>>
    /\ UNCHANGED <<paramVars, reducerVars, extremeVars, solverVars>>

\* ------------------------------------------------------------------------
\* generate_sudoku.py: main, generate_extreme_puzzle, generate_puzzle_base,
\* generate_full_grid
\* ------------------------------------------------------------------------
GenMain ==
    /\ pc = "gen_main"
    /\ IF difficulty = "extreme"
       THEN /\ attempt' = 1
            /\ pc' = "extreme_loop"
       ELSE /\ pc' = "base_start"
            /\ UNCHANGED attempt
    /\ UNCHANGED <<rng, grid, stack, ret, nodes, ctx, count, log, result>>
    /\ UNCHANGED <<paramVars, reducerVars, solverVars>>

ExtremeAttempt ==
    /\ pc = "extreme_loop"
    /\ attempt <= max_attempts
    /\ pc' = "base_start"
    /\ UNCHANGED <<rng, grid, stack, ret, nodes, ctx, count>>
    /\ UNCHANGED <<paramVars, reducerVars, extremeVars, solverVars>>

\* the loop of generate_extreme_puzzle ending one attempt early
ExtremeRaiseEarly ==
    /\ pc = "extreme_loop"
    /\ attempt >= max_attempts
    /\ pc' = "raised"
    /\ UNCHANGED <<rng, grid, stack, ret, nodes, ctx, count>>
    /\ UNCHANGED <<paramVars, reducerVars, extremeVars, solverVars>>

ExtremeRaise ==
    /\ pc = "extreme_loop"
    /\ attempt > max_attempts
    /\ pc' = "raised"
    /\ UNCHANGED <<rng, grid, stack, ret, nodes, ctx, count>>
    /\ UNCHANGED <<paramVars, reducerVars, extremeVars, solverVars>>

\* generate_puzzle_base enters generate_full_grid
BaseStart ==
    /\ pc = "base_start"
    /\ grid' = EmptyGrid
    /\ nodes' = 0
    /\ stack' = <<>>
    /\ ctx' = "full"
    /\ pc' = "sws_call"
    /\ UNCHANGED <<rng, ret, count>>
    /\ UNCHANGED <<paramVars, reducerVars, extremeVars, solverVars>>

\* generate_full_grid returns the grid whatever the search answered
FullGridReturn ==
    /\ pc = "sws_return"
    /\ stack = <<>>
    /\ ctx = "full"
    /\ LET s == RandomShuffle(rng)
       IN /\ cells' = s.cells
          /\ rng' = s.rng
    /\ full' = grid
    /\ puzzle' = grid
    /\ removed' = 0
    /\ ci' = 1
    /\ pc' = "remove_loop"
    /\ UNCHANGED <<grid, stack, ret, nodes, ctx, count, backup>>
    /\ UNCHANGED <<paramVars, extremeVars, solverVars>>

LoopEnds ==
    \/ ci > N * N
    \/ N * N - removed <= DIFFICULTY_CLUES[difficulty]
    \/ removed >= MaxRemoved

RemoveBreak ==
    /\ pc = "remove_loop"
    /\ LoopEnds
    /\ pc' = "base_return"
    /\ UNCHANGED <<rng, grid, stack, ret, nodes, ctx, count>>
    /\ UNCHANGED <<paramVars, reducerVars, extremeVars, solverVars>>

\* lines 116-120: clear the cell, copy the puzzle, call count_solutions
RemoveClear ==
    /\ pc = "remove_loop"
    /\ ~LoopEnds
    /\ LET r == cells[ci][1]
           c == cells[ci][2]
       IN /\ backup' = puzzle[r][c]
          /\ puzzle' = [puzzle EXCEPT ![r][c] = 0]
          /\ grid' = [puzzle EXCEPT ![r][c] = 0]
    /\ stack' = <<>>
    /\ ctx' = "reduce"
    /\ pc' = "count_call"
    /\ UNCHANGED <<rng, ret, nodes, count, full, cells, ci, removed>>
    /\ UNCHANGED <<paramVars, extremeVars, solverVars>>

\* the removal loop keeping every removal, whatever the count
RemoveDecideKeepAll ==
    /\ pc = "count_return"
    /\ stack = <<>>
    /\ ctx = "reduce"
    /\ removed' = removed + 1
    /\ ci' = ci + 1
    /\ pc' = "remove_loop"
    /\ UNCHANGED <<rng, grid, stack, ret, nodes, ctx, count, full, puzzle, cells, backup>>
    /\ UNCHANGED <<paramVars, extremeVars, solverVars>>

\* lines 120-123: count_solutions(test, limit=2) has returned count
RemoveDecide ==
    /\ pc = "count_return"
    /\ stack = <<>>
    /\ ctx = "reduce"
    /\ IF count # 1
       THEN /\ puzzle' = [puzzle EXCEPT ![cells[ci][1]][cells[ci][2]] = backup]
            /\ UNCHANGED removed
       ELSE /\ removed' = removed + 1
            /\ UNCHANGED puzzle
    /\ ci' = ci + 1
    /\ pc' = "remove_loop"
    /\ UNCHANGED <<rng, grid, stack, ret, nodes, ctx, count, full, cells, backup>>
    /\ UNCHANGED <<paramVars, extremeVars, solverVars>>

\* back in main (lines 284-286) or in generate_extreme_puzzle (lines 138-140)
BaseReturn ==
    /\ pc = "base_return"
    /\ IF difficulty = "extreme"
       THEN /\ grid' = puzzle
            /\ nodes' = 0
            /\ stack' = <<>>
            /\ ctx' = "measure"
            /\ pc' = "sws_call"
            /\ UNCHANGED result
       ELSE /\ result' = puzzle
            /\ pc' = "generated"
            /\ UNCHANGED <<grid, nodes, stack, ctx>>
    /\ UNCHANGED <<rng, ret, count, attempt, log>>
    /\ UNCHANGED <<paramVars, reducerVars, solverVars>>

MeasureReturn ==
    /\ pc = "sws_return"
    /\ stack = <<>>
    /\ ctx = "measure"
    /\ log' = Append(log, nodes)
    /\ IF nodes >= min_nodes
       THEN /\ result' = puzzle
            /\ pc' = "generated"
            /\ UNCHANGED attempt
       ELSE /\ attempt' = attempt + 1
            /\ pc' = "extreme_loop"
            /\ UNCHANGED result
    /\ UNCHANGED <<rng, grid, stack, ret, nodes, ctx, count>>
    /\ UNCHANGED <<paramVars, reducerVars, solverVars>>

\* csv.writer writes a cell as the decimal text of its number
DigitText == <<"0", "1", "2", "3", "4", "5", "6", "7", "8", "9">>

write_csv(g) == [r \in Idx |-> [c \in Idx |-> DigitText[g[r][c] + 1]]]

\* int(cell) of every cell of every row
read_sudoku_csv(rows) ==
    [r \in Idx |-> [c \in Idx |-> (CHOOSE k \in DOMAIN DigitText : DigitText[k] = rows[r][c]) - 1]]

\* the puzzle written by the generator is read by solve_sudoku.py
Handoff ==
    /\ pc = "generated"
    /\ grid' = read_sudoku_csv(write_csv(result))
    /\ input' = read_sudoku_csv(write_csv(result))
    /\ validate' \in BOOLEAN
    /\ output' \in BOOLEAN
    /\ stack' = <<>>
    /\ pc' = "solver_main"
    /\ UNCHANGED <<rng, ret, nodes, ctx, count, verdict, attempts>>
    /\ UNCHANGED <<paramVars, reducerVars, extremeVars>>

\* ------------------------------------------------------------------------
\* solve_sudoku.py: main and solve_sudoku
\* ------------------------------------------------------------------------
SolverMain ==
    /\ pc = "solver_main"
    /\ verdict' = IF validate THEN validate_grid(grid) ELSE <<"skipped">>
    /\ pc' = IF validate /\ validate_grid(grid) # <<"valid">> THEN "validation_failed"
             ELSE IF validate /\ ~output THEN "validated"
             ELSE "solve_call"
    /\ attempts' = 0
    /\ UNCHANGED <<rng, grid, stack, ret, nodes, ctx, count, input, validate, output>>
    /\ UNCHANGED <<paramVars, reducerVars, extremeVars>>

SolveCall ==
    /\ pc = "solve_call"
    /\ LET empty == find_empty(grid)
       IN IF empty = NoCell
          THEN /\ ret' = TRUE
               /\ pc' = "solve_return"
               /\ UNCHANGED stack
          ELSE /\ stack' = Append(stack, [row |-> empty[1], col |-> empty[2], num |-> 1])
               /\ pc' = "solve_loop"
               /\ UNCHANGED ret
    /\ UNCHANGED <<rng, grid, nodes, ctx, count>>
    /\ UNCHANGED <<paramVars, reducerVars, extremeVars, solverVars>>

SolveTry ==
    /\ pc = "solve_loop"
    /\ Top.num <= 9
    /\ attempts' = attempts + 1
    /\ LET f == Top
       IN IF is_valid_move(grid, f.row, f.col, f.num)
          THEN /\ grid' = [grid EXCEPT ![f.row][f.col] = f.num]
               /\ pc' = "solve_call"
               /\ UNCHANGED stack
          ELSE /\ stack' = [stack EXCEPT ![Len(stack)].num = f.num + 1]
               /\ UNCHANGED <<grid, pc>>
    /\ UNCHANGED <<rng, ret, nodes, ctx, count, input, validate, output, verdict>>
    /\ UNCHANGED <<paramVars, reducerVars, extremeVars>>

SolveExhausted ==
    /\ pc = "solve_loop"
    /\ Top.num > 9
    /\ stack' = Pop
    /\ ret' = FALSE
    /\ pc' = "solve_return"
    /\ UNCHANGED <<rng, grid, nodes, ctx, count>>
    /\ UNCHANGED <<paramVars, reducerVars, extremeVars, solverVars>>

\* solve_sudoku without the reset of line 137
SolveReturnNoUndo ==
    /\ pc = "solve_return"
    /\ stack # <<>>
    /\ IF ret
       THEN /\ stack' = Pop
            /\ UNCHANGED pc
       ELSE /\ stack' = [stack EXCEPT ![Len(stack)].num = Top.num + 1]
            /\ pc' = "solve_loop"
    /\ UNCHANGED <<rng, grid, ret, nodes, ctx, count>>
    /\ UNCHANGED <<paramVars, reducerVars, extremeVars, solverVars>>

\* the recursive call of line 134 comes back into the caller's frame
SolveReturn ==
    /\ pc = "solve_return"
    /\ stack # <<>>
    /\ IF ret
       THEN /\ stack' = Pop
            /\ UNCHANGED <<grid, pc>>
       ELSE /\ grid' = [grid EXCEPT ![Top.row][Top.col] = 0]
            /\ stack' = [stack EXCEPT ![Len(stack)].num = Top.num + 1]
            /\ pc' = "solve_loop"
    /\ UNCHANGED <<rng, ret, nodes, ctx, count>>
    /\ UNCHANGED <<paramVars, reducerVars, extremeVars, solverVars>>

SolverDone ==
    /\ pc = "solve_return"
    /\ stack = <<>>
    /\ pc' = IF ret THEN "solved" ELSE "no_solution"
    /\ UNCHANGED <<rng, grid, stack, ret, nodes, ctx, count>>
    /\ UNCHANGED <<paramVars, reducerVars, extremeVars, solverVars>>

\* ------------------------------------------------------------------------
\* count_solutions, one step per call, loop iteration and return; a frame
\* holds the cell, the digit of the loop and the local count
\* ------------------------------------------------------------------------
CountCall ==
    /\ pc = "count_call"
    /\ LET empty == gen_find_empty(grid)
       IN IF empty = NoCell
          THEN /\ count' = 1
               /\ pc' = "count_return"
               /\ UNCHANGED stack
          ELSE /\ stack' = Append(stack, [row |-> empty[1], col |-> empty[2],
                                          num |-> 1, count |-> 0])
               /\ pc' = "count_loop"
               /\ UNCHANGED count
    /\ UNCHANGED <<rng, grid, ret, nodes, ctx>>
    /\ UNCHANGED <<paramVars, reducerVars, extremeVars, solverVars>>

CountTry ==
    /\ pc = "count_loop"
    /\ Top.num <= N
    /\ LET f == Top
       IN IF gen_is_valid_move(grid, f.row, f.col, f.num)
          THEN /\ grid' = [grid EXCEPT ![f.row][f.col] = f.num]
               /\ pc' = "count_call"
               /\ UNCHANGED stack
          ELSE /\ stack' = [stack EXCEPT ![Len(stack)].num = f.num + 1]
               /\ UNCHANGED <<grid, pc>>
    /\ UNCHANGED <<rng, ret, nodes, ctx, count>>
    /\ UNCHANGED <<paramVars, reducerVars, extremeVars, solverVars>>

\* line 82: the loop is over
CountExhausted ==
    /\ pc = "count_loop"
    /\ Top.num > N
    /\ count' = Top.count
    /\ stack' = Pop
    /\ pc' = "count_return"
    /\ UNCHANGED <<rng, grid, ret, nodes, ctx>>
    /\ UNCHANGED <<paramVars, reducerVars, extremeVars, solverVars>>

\* lines 76-80: the recursive call comes back into the caller's frame
CountReturn ==
    /\ pc = "count_return"
    /\ stack # <<>>
    /\ LET f == Top
           c2 == f.count + count
       IN /\ grid' = [grid EXCEPT ![f.row][f.col] = 0]
          /\ IF c2 >= limit
             THEN /\ count' = c2
                  /\ stack' = Pop
                  /\ UNCHANGED pc
             ELSE /\ stack' = [stack EXCEPT ![Len(stack)].count = c2,
                                            ![Len(stack)].num = f.num + 1]
                  /\ pc' = "count_loop"
                  /\ UNCHANGED count
    /\ UNCHANGED <<rng, ret, nodes, ctx>>
    /\ UNCHANGED <<paramVars, reducerVars, extremeVars, solverVars>>

\* count_solutions(grid, limit) called on its own has returned
CountDone ==
    /\ pc = "count_return"
    /\ stack = <<>>
    /\ ctx = "count"
    /\ pc' = "counted"
    /\ UNCHANGED <<rng, grid, stack, ret, nodes, ctx, count>>
    /\ UNCHANGED <<paramVars, reducerVars, extremeVars, solverVars>>

\* ------------------------------------------------------------------------
\* Specification
\* ------------------------------------------------------------------------
InitCommon ==
    /\ stack = <<>>
    /\ ret = FALSE
    /\ nodes = 0
    /\ full = EmptyGrid
    /\ puzzle = EmptyGrid
    /\ cells = AllCells
    /\ ci = 1
    /\ removed = 0
    /\ backup = 0
    /\ attempt = 0
    /\ log = <<>>
    /\ result = EmptyGrid
    /\ verdict = <<"none">>
    /\ attempts = 0
    /\ count = 0

InitGenerate ==
    /\ prog = "generate"
    /\ pc = "gen_main"
    /\ ctx = "none"
    /\ rng \in {Seeded(s) : s \in 0 .. MaxSeed}
    /\ difficulty \in DOMAIN DIFFICULTY_CLUES
    /\ IF difficulty = "extreme"
       THEN /\ min_nodes \in MinNodesChoices
            /\ max_attempts \in {0, MaxAttempts}
       ELSE /\ min_nodes = ExtremeDefaultMinNodes
            /\ max_attempts = ExtremeDefaultMaxAttempts
    /\ grid = EmptyGrid
    /\ input = EmptyGrid
    /\ validate = FALSE
    /\ output = FALSE
    /\ limit = 2

InitSolve ==
    /\ prog = "solve"
    /\ pc = "solver_main"
    /\ ctx = "none"
    /\ rng = 0
    /\ difficulty = "easy"
    /\ min_nodes = ExtremeDefaultMinNodes
    /\ max_attempts = ExtremeDefaultMaxAttempts
    /\ grid \in Inputs
    /\ input = grid
    /\ validate \in BOOLEAN
    /\ output \in BOOLEAN
    /\ limit = 2

InitCount ==
    /\ prog = "count"
    /\ pc = "count_call"
    /\ ctx = "count"
    /\ rng = 0
    /\ difficulty = "easy"
    /\ min_nodes = ExtremeDefaultMinNodes
    /\ max_attempts = ExtremeDefaultMaxAttempts
    /\ grid \in CountInputs
    /\ input = grid
    /\ validate = FALSE
    /\ output = FALSE
    /\ limit \in 1 .. MaxLimit

Init == InitCommon /\ (InitGenerate \/ InitSolve \/ InitCount)

Next ==
    \/ GenMain
    \/ ExtremeAttempt
    \/ ExtremeRaise
    \/ BaseStart
    \/ SwsCall
    \/ SwsTry
    \/ SwsExhausted
    \/ SwsReturn
    \/ FullGridReturn
    \/ RemoveBreak
    \/ RemoveClear
    \/ RemoveDecide
    \/ BaseReturn
    \/ MeasureReturn
    \/ Handoff
    \/ SolverMain
    \/ SolveCall
    \/ SolveTry
    \/ SolveExhausted
    \/ SolveReturn
    \/ SolverDone
    \/ CountCall
    \/ CountTry
    \/ CountExhausted
    \/ CountReturn
    \/ CountDone

Spec == Init /\ [][Next]_vars

\* ------------------------------------------------------------------------
\* Vocabulary of the properties (section 3 of the specification)
\* ------------------------------------------------------------------------
\* the cells of row k, of column k and of box k, as sets of positions
RowCells(k) == {<<k, c>> : c \in Idx}

ColCells(k) == {<<r, k>> : r \in Idx}

BoxCells(k) == {<<(k \div B) * B + (j \div B), (k % B) * B + (j % B)>> : j \in Idx}

Groups == {RowCells(k) : k \in Idx} \cup {ColCells(k) : k \in Idx} \cup {BoxCells(k) : k \in Idx}

\* valid: no two equal non-zero digits share a row, a column or a box
NoConflict(g) ==
    \A G \in Groups : \A d \in 1 .. N : Cardinality({p \in G : g[p[1]][p[2]] = d}) <= 1

Complete(g) == \A r \in Idx : \A c \in Idx : g[r][c] # 0

InRange(g) == \A r \in Idx : \A c \in Idx : g[r][c] \in 0 .. 9

Solved(g) == Complete(g) /\ NoConflict(g)

GivensKept(g, given) == \A r \in Idx : \A c \in Idx : given[r][c] # 0 => g[r][c] = given[r][c]

\* the digits that no cell sharing a group with (r, c) holds
Free(g, r, c) ==
    {d \in 1 .. N : \A G \in Groups : <<r, c>> \in G => \A q \in G : g[q[1]][q[2]] # d}

ZeroCols(g, r) == {c \in Idx : g[r][c] = 0}

Grids == [Idx -> [Idx -> 0 .. N]]

\* all the ways to fill the empty cells of row r in the grids of F, breadth
\* first; the grids of F have the same empty cells
FillRow[F \in SUBSET Grids, r \in Idx] ==
    IF F = {} THEN F
    ELSE LET cols == ZeroCols(CHOOSE g \in F : TRUE, r)
         IN IF cols = {} THEN F
            ELSE LET c == Least(cols)
                 IN FillRow[UNION {{[g EXCEPT ![r][c] = d] : d \in Free(g, r, c)} : g \in F}, r]

FillFrom[F \in SUBSET Grids, r \in 0 .. N] ==
    IF r = N THEN F ELSE FillFrom[FillRow[F, r], r + 1]

\* the number of solved grids that keep the digits of g
NumSolutions(g) == Cardinality({h \in FillFrom[{g}, 0] : Solved(h)})

Min(a, b) == IF a <= b THEN a ELSE b

\* the digits the solver has placed, summed over a row and over the grid
RECURSIVE PlacedInRow(_, _)
PlacedInRow(r, c) ==
    IF c = N THEN 0
    ELSE (IF input[r][c] = 0 THEN grid[r][c] ELSE 0) + PlacedInRow(r, c + 1)

RECURSIVE PlacedSum(_)
PlacedSum(r) == IF r = N THEN 0 ELSE PlacedInRow(r, 0) + PlacedSum(r + 1)

InReducer == prog = "generate" /\ pc \in {"remove_loop", "base_return", "generated"}

FullGridDone == pc = "sws_return" /\ stack = <<>> /\ ctx = "full"

MeasureDone == pc = "sws_return" /\ stack = <<>> /\ ctx = "measure"

InSolver == pc \in {"solve_call", "solve_loop", "solve_return", "solved", "no_solution"}

ExtremeReturned == difficulty = "extreme" /\ pc = "generated"

\* ------------------------------------------------------------------------
\* Properties
\* ------------------------------------------------------------------------
\* C1: the puzzle of generate_puzzle_base has exactly one solution, after
\* every iteration of the removal loop and when it is returned; the loop
\* keeps a removal only when count_solutions answered 1.
C1_UniqueAfterEveryRemoval ==
    /\ InReducer => NumSolutions(puzzle) = 1
    /\ (pc = "remove_loop" /\ ci > 1) =>
          (puzzle[cells[ci - 1][1]][cells[ci - 1][2]] = 0) <=> (count = 1)
    /\ (prog = "generate" /\ pc = "generated") => result = puzzle

C1_Witness ==
    /\ pc = "base_return"
    /\ removed >= 1
    /\ ci - 1 > removed
    /\ puzzle # full
    /\ NumSolutions(puzzle) = 1

\* C2 (as claimed): count_solutions(grid, limit) returns the number of solved
\* completions of the grid capped at limit, so never more than limit.
C2_CountIsCappedNumber ==
    pc = "counted" => /\ count <= limit
                      /\ count = Min(NumSolutions(input), limit)

\* C3: when solve_sudoku returns False the grid is cell for cell the grid it
\* was called with.
C3_UnsolvableLeavesInput == pc = "no_solution" => grid = input

C3_Witness == pc = "no_solution" /\ attempts > N /\ ~Complete(input) /\ grid = input

\* C4 (as claimed): solve_sudoku never returns True leaving a grid that is
\* not solved, so an input without solved completion is answered False.
C4_TrueOnlyWhenSolved == pc = "solved" => Solved(grid)

\* C5: the search of generate_full_grid from the empty grid answers True and
\* leaves a complete grid without a repeated digit in a row, column or box.
C5_FullGridSolved ==
    /\ FullGridDone => ret /\ Solved(grid)
    /\ pc = "remove_loop" => Solved(full)

C5_Witness == pc = "remove_loop" /\ ci = 1 /\ nodes > N * N /\ Solved(full)

\* C6: the solver run on the puzzle reduced from a full grid succeeds and
\* leaves exactly that full grid.
C6_RoundTrip ==
    (prog = "generate" /\ pc \in {"solved", "no_solution"}) => pc = "solved" /\ grid = full

C6_Witness ==
    /\ prog = "generate"
    /\ pc = "solved"
    /\ removed > 1
    /\ input = puzzle
    /\ input # full
    /\ grid = full

\* C7 (as claimed): generate_extreme_puzzle makes at most max_attempts
\* attempts, returns the puzzle of the first attempt measured at min_nodes or
\* more, raises exactly when max_attempts attempts were all measured below
\* min_nodes, and succeeds on attempt 1 whenever min_nodes <= 1.
C7_AsClaimed ==
    /\ Len(log) <= max_attempts
    /\ ExtremeReturned =>
          /\ Len(log) >= 1
          /\ log[Len(log)] >= min_nodes
          /\ \A i \in 1 .. (Len(log) - 1) : log[i] < min_nodes
          /\ result = puzzle
    /\ pc = "raised" =>
          /\ Len(log) = max_attempts
          /\ \A i \in 1 .. Len(log) : log[i] < min_nodes
    /\ (pc \in {"raised", "generated"} /\ difficulty = "extreme" /\ min_nodes <= 1) =>
          pc = "generated" /\ Len(log) = 1

\* C7: generate_extreme_puzzle makes at most max_attempts attempts, returns
\* the puzzle of the first attempt measured at min_nodes or more, raises
\* exactly when max_attempts attempts were all measured below min_nodes, and
\* succeeds on attempt 1 when min_nodes <= 1 and max_attempts >= 1.
C7_ExtremeAttempts ==
    /\ Len(log) <= max_attempts
    /\ ExtremeReturned =>
          /\ Len(log) >= 1
          /\ log[Len(log)] >= min_nodes
          /\ \A i \in 1 .. (Len(log) - 1) : log[i] < min_nodes
          /\ result = puzzle
          /\ attempt = Len(log)
    /\ pc = "raised" =>
          /\ Len(log) = max_attempts
          /\ \A i \in 1 .. Len(log) : log[i] < min_nodes
    /\ (pc \in {"raised", "generated"} /\ difficulty = "extreme"
          /\ min_nodes <= 1 /\ max_attempts >= 1) =>
          pc = "generated" /\ Len(log) = 1

C7_Witness ==
    /\ ExtremeReturned
    /\ Len(log) = 2
    /\ log[1] < min_nodes
    /\ log[2] >= min_nodes

\* C8: validate_grid raises nothing exactly for the grids whose cells are
\* all in 0..9 and that hold no duplicate non-zero digit in a row, column or
\* box; an out-of-range cell is reported before any duplicate; a solved grid
\* is accepted.
C8_ValidateGrid ==
    (validate /\ (pc \in {"validation_failed", "validated"}
                    \/ (pc = "solve_call" /\ stack = <<>>))) =>
        /\ (verdict = <<"valid">>) <=> (InRange(input) /\ NoConflict(input))
        /\ ~InRange(input) => verdict[1] = "Invalid value"
        /\ (InRange(input) /\ Solved(input)) => verdict = <<"valid">>
        /\ (pc = "validation_failed") <=> (verdict # <<"valid">>)

C8_Witness ==
    /\ pc = "validation_failed"
    /\ ~InRange(input)
    /\ ~NoConflict(input)
    /\ verdict[1] = "Invalid value"

\* C9 (as claimed): the search that measures an extreme attempt tries the
\* digits of every cell in ascending order 1..9, and leaves the puzzle alone.
C9_MeasuredAscending ==
    /\ (ctx = "measure" /\ pc = "sws_loop") => Top.order = [k \in 1 .. N |-> k]
    /\ MeasureDone => GivensKept(grid, puzzle)

\* C10: on a conflict-free input the solver writes only cells that were empty
\* in the input, the grid stays conflict-free at every point of the search,
\* and a True answer leaves a complete grid.
C10_SolverFrame ==
    InSolver =>
        \/ /\ GivensKept(grid, input)
           /\ NoConflict(grid)
           /\ pc = "solved" => Complete(grid)
        \/ ~NoConflict(input)

C10_Witness ==
    /\ prog = "solve"
    /\ pc = "solved"
    /\ NoConflict(input)
    /\ attempts > PlacedSum(0)
    /\ Solved(grid)
    /\ GivensKept(grid, input)
====
